---- MODULE Spec2Model ----
(***************************************************************************)
(* EC2Node (src/ec2_cluster/infra/EC2Node.py): a handle that manages one   *)
(* EC2 instance found by the value of its 'Name' tag.                      *)
(*                                                                         *)
(* The state is the provider's instance table, each handle's lazily loaded *)
(* _instance_info, and for each handle the position of the method it is    *)
(* running.  A method is split at its remote calls, one action per call,   *)
(* so that two callers can interleave as two Python processes would.       *)
(***************************************************************************)
EXTENDS Integers, Sequences, FiniteSets, TLC

\* ------------------------------------------------------------------ bounds
MaxInst == 2

\* Methods the two concurrent callers start between them.
MaxCalls == 4

\* ---------------------------------------------------------------- universe
Handles == {"h1", "h2"}

NodeName == "node"

NoTag == "<untagged>"

SGs == {"sg-a", "sg-b"}

States == {"pending", "running", "shutting-down", "terminated", "stopping", "stopped"}

Live == {"running", "pending"}

\* Python's None for _instance_info / a describe that matched nothing.
None == [InstanceId |-> 0, SecurityGroups |-> {}]

NoIops == -1

NoEia == <<"None">>

EiaTypes == {NoEia,
             <<"e", "i", "a", "1", ".", "l">>,
             <<"e", "i", "a", "2", ".", "l">>,
             <<"e", "i", "a">>}

\* A tag is an element of the tags argument: a dict with the keys it has, or
\* (is_dict false) something that is not a dict.
GoodTag == [is_dict |-> TRUE, Key |-> "team", Value |-> "ml"]

NameTag == [is_dict |-> TRUE, Key |-> "Name", Value |-> "x"]

TagLists == {<< >>,
             <<GoodTag>>,
             <<NameTag>>,
             <<GoodTag, NameTag>>,
             <<[is_dict |-> TRUE, Key |-> "team"]>>,
             <<[is_dict |-> TRUE, Value |-> "ml"]>>,
             <<[is_dict |-> FALSE]>>}

\* The plain call launch(..., volume_type="gp2", security_group_ids=[sg-a, sg-b]);
\* the fields are the arguments that the validation and the calls read.
PlainLaunch ==
    [security_group_ids |-> SGs,
     sg_is_list         |-> TRUE,
     eia_type           |-> NoEia,
     volume_type        |-> "gp2",
     iops               |-> NoIops,
     tags_is_none       |-> TRUE,
     tags_is_list       |-> FALSE,
     tags               |-> << >>,
     dry_run            |-> FALSE]

\* The calls explored: the plain call and those that differ from it in one argument.
LaunchParams ==
    {PlainLaunch,
     [PlainLaunch EXCEPT !.security_group_ids = {}],
     [PlainLaunch EXCEPT !.sg_is_list = FALSE],
     [PlainLaunch EXCEPT !.dry_run = TRUE],
     [PlainLaunch EXCEPT !.iops = 3000],
     [PlainLaunch EXCEPT !.volume_type = "io1"],
     [PlainLaunch EXCEPT !.volume_type = "io1", !.iops = 3000]}
    \cup {[PlainLaunch EXCEPT !.eia_type = e] : e \in EiaTypes}
    \cup {[PlainLaunch EXCEPT !.tags_is_none = FALSE, !.tags_is_list = TRUE, !.tags = t] :
             t \in TagLists}
    \cup {[PlainLaunch EXCEPT !.tags_is_none = FALSE, !.tags = t] : t \in {<< >>, <<GoodTag>>}}

\* Arguments of is_in_state: a string, or a list of strings.
StateArgs == {<<"str", "running">>,
              <<"list", {"running", "pending"}>>,
              <<"list", {"shutting-down", "terminated"}>>}

Attributes == {"instance_id", "private_ip", "public_ip", "security_groups"}

VARIABLES
    instances,  \* the provider's instances, by instance id: state, 'Name' tag, security groups
    info,       \* info[h]: self._instance_info of handle h
    pc,         \* pc[h]: where handle h is in the method it runs
    arg,        \* arg[h]: arguments and locals of that method, and its remote effects so far
    request,    \* the remote call made by the latest step
    result,     \* what the latest step returned or raised to the caller, if it ended a method
    prev,       \* the latest launch, terminate or detach_security_group that succeeded
    env,        \* the environment: one caller or two, a reliable provider or not, instances
                \* with or without public addresses
    calls       \* methods started so far, counted where the environment bounds them

vars == <<instances, info, pc, arg, request, result, prev, env, calls>>

\* ------------------------------------------------------------ record shapes
NoRequest == [api |-> "none", id |-> 0, status |-> "none"]

Request(api, id, status) == [api |-> api, id |-> id, status |-> status]

NoArg == [dry_run |-> FALSE, sg_id |-> "", new_sgs |-> {}, instance_id |-> 0, effects |-> {}]

NoResult == [h |-> "", op |-> "none", sg_id |-> "", outcome |-> "none", flag |-> FALSE,
             ret |-> None, effects |-> {}]

Returned(h, op, outcome, flag, ret, effects) ==
    [h |-> h, op |-> op, sg_id |-> "", outcome |-> outcome, flag |-> flag, ret |-> ret,
     effects |-> effects]

NoPrev == [h |-> "", op |-> "none", sg_id |-> ""]

\* prev after a launch, terminate or detach_security_group has ended: a call
\* that raised leaves it; the handle and the group are kept for a detach.
Ended(h, op, outcome, sg_id) ==
    IF outcome # "ok" THEN prev
    ELSE IF op = "detach_security_group" THEN [h |-> h, op |-> op, sg_id |-> sg_id]
    ELSE [h |-> "", op |-> op, sg_id |-> ""]

\* ------------------------------------------------------------- the provider
\* A remote call either answers or raises botocore's ClientError; the second
\* happens only where the environment allows provider faults.
Statuses == IF env.faults THEN {"ok", "ClientError"} ELSE {"ok"}

\* A call made with DryRun=True never acts: the SDK raises DryRunOperation.
DryRun(status, dry_run) == IF status = "ok" /\ dry_run THEN "DryRunOperation" ELSE status

\* A state filter that only ever passes 'running' on.
describe_instances_running_only(name, states) ==
    {i \in DOMAIN instances :
        instances[i].name = name /\ instances[i].state \in (states \cap {"running"})}

\* describe_instances with the filters tag:Name and instance-state-name.
describe_instances(name, states) ==
    {i \in DOMAIN instances : instances[i].name = name /\ instances[i].state \in states}

PrivateIp(i) == <<10, 0, 0, i>>

PublicIp(i) == <<54, 0, 0, i>>

\* response['Reservations'][0]['Instances'][0] as a snapshot; the key
\* 'PublicIpAddress' is there only for an instance that has a public address.
Snapshot(i) ==
    IF env.public_ips
    THEN [InstanceId |-> i, SecurityGroups |-> instances[i].groups,
          PrivateIpAddress |-> PrivateIp(i), PublicIpAddress |-> PublicIp(i)]
    ELSE [InstanceId |-> i, SecurityGroups |-> instances[i].groups,
          PrivateIpAddress |-> PrivateIp(i)]

\* A dry run that creates the instance all the same.
run_instances_on_dry_run(name, security_group_ids, status) ==
    IF status \in {"ok", "DryRunOperation"}
    THEN Append(instances, [state |-> "pending", name |-> name, groups |-> security_group_ids])
    ELSE instances

\* A provider that refuses a second running or pending instance of one name.
run_instances_unique_name(name, security_group_ids, status) ==
    IF status = "ok" /\ describe_instances(name, Live) = {}
    THEN Append(instances, [state |-> "pending", name |-> name, groups |-> security_group_ids])
    ELSE instances

\* The instances after each mutating call; a call that raises has not acted.
run_instances(name, security_group_ids, status) ==
    IF status = "ok"
    THEN Append(instances, [state |-> "pending", name |-> name, groups |-> security_group_ids])
    ELSE instances

terminate_instances(id, status) ==
    IF status = "ok"
    THEN [instances EXCEPT ![id].state =
             IF @ \in {"shutting-down", "terminated"} THEN @ ELSE "shutting-down"]
    ELSE instances

delete_tags(id, status) ==
    IF status = "ok" THEN [instances EXCEPT ![id].name = NoTag] ELSE instances

modify_instance_attribute(id, groups, status) ==
    IF status = "ok" THEN [instances EXCEPT ![id].groups = groups] ELSE instances

\* The waiters: how a wait that ends now can end.  It returns when the awaited
\* condition holds and raises WaiterError when the instance is in a state the
\* waiter gives up on or the wait has timed out; otherwise it goes on blocking.
\* 'instance_running', filtered by tag:Name alone.
instance_running(name) ==
    LET named == {i \in DOMAIN instances : instances[i].name = name} IN
    IF named # {} /\ \A i \in named : instances[i].state = "running"
    THEN {"ok"}
    ELSE {"WaiterError"}

\* 'instance_status_ok' for one instance id: the health check of a running
\* instance passes or goes on failing.
instance_status_ok(id) ==
    IF instances[id].state = "running" THEN {"ok", "WaiterError"} ELSE {"WaiterError"}

\* 'instance_terminated', filtered by instance-id.
instance_terminated(id) ==
    IF instances[id].state = "terminated" THEN {"ok"} ELSE {"WaiterError"}

\* ------------------------------------------------------------------ helpers
Busy == {h \in Handles : pc[h] # "idle"}

\* A method may start on h: h is between calls, and where the environment has
\* a single caller no other handle is in the middle of a method.
MayStart(h) ==
    /\ pc[h] = "idle"
    /\ env.interleave \/ Busy = {}
    /\ env.bounded => calls < MaxCalls
    /\ calls' = IF env.bounded THEN calls + 1 ELSE calls

\* A method of h ends in one step, with no change to pc and arg.
Answer(h, op, outcome, flag, ret) ==
    /\ result' = Returned(h, op, outcome, flag, ret, {})
    /\ UNCHANGED <<pc, arg>>

\* A wait of h ends.
Wakes(h, op, outcome) ==
    /\ pc' = [pc EXCEPT ![h] = "idle"]
    /\ arg' = [arg EXCEPT ![h] = NoArg]
    /\ result' = Returned(h, op, outcome, FALSE, None, {})

\* launch, terminate or detach_security_group of h ends.
Finish(h, op, outcome, sg_id, effects) ==
    /\ pc' = [pc EXCEPT ![h] = "idle"]
    /\ arg' = [arg EXCEPT ![h] = NoArg]
    /\ result' = [Returned(h, op, outcome, FALSE, None, effects) EXCEPT !.sg_id = sg_id]
    /\ prev' = Ended(h, op, outcome, sg_id)

\* ------------------------------------------------- validation (launch 297-318)
StartsWith(s, prefix) ==
    /\ Len(s) >= Len(prefix)
    /\ SubSeq(s, 1, Len(prefix)) = prefix

Eia1 == <<"e", "i", "a", "1">>

\* `if tags:` is false for None and for the empty list.
TagsTruthy(p) == ~p.tags_is_none /\ Len(p.tags) # 0

\* The asserts without the one on the reserved 'Name' key.
ValidateInputNoReservedKey(p) ==
    /\ p.sg_is_list
    /\ Cardinality(p.security_group_ids) > 0
    /\ (p.eia_type # NoEia => StartsWith(p.eia_type, Eia1))
    /\ (p.volume_type = "io1" => p.iops # NoIops)
    /\ (TagsTruthy(p) =>
          /\ p.tags_is_list
          /\ Len(p.tags) # 0
          /\ \A k \in 1..Len(p.tags) :
                /\ p.tags[k].is_dict
                /\ "Key" \in DOMAIN p.tags[k]
                /\ "Value" \in DOMAIN p.tags[k])

\* The asserts of launch, in order; TRUE when none of them fires.
ValidateInput(p) ==
    /\ p.sg_is_list
    /\ Cardinality(p.security_group_ids) > 0
    /\ (p.eia_type # NoEia => StartsWith(p.eia_type, Eia1))
    /\ (p.volume_type = "io1" => p.iops # NoIops)
    /\ (TagsTruthy(p) =>
          /\ p.tags_is_list
          /\ Len(p.tags) # 0
          /\ \A k \in 1..Len(p.tags) :
                /\ p.tags[k].is_dict
                /\ "Key" \in DOMAIN p.tags[k]
                /\ p.tags[k].Key # "Name"
                /\ "Value" \in DOMAIN p.tags[k])

\* ------------------------------------------------------ lazy loading (54-60)
\* A handle that queries on every access.
NeedsQueryAlways(h) == TRUE

\* `if not self._instance_info`
NeedsQuery(h) == info[h] = None

\* A guard that needs two matches before it reports one.
ExistsOffByOne(matches) == Cardinality(matches) > 1

\* len(response["Reservations"]) > 0
Exists(matches) == Cardinality(matches) > 0

\* `if isinstance(states, str): states = [states]`
StateList(states) == IF states[1] = "str" THEN {states[2]} ELSE states[2]

\* query_for_instance_info: None, or the first instance of the response; the
\* provider chooses the order when several instances match.
query_for_instance_info ==
    IF Exists(describe_instances(NodeName, Live))
    THEN {Snapshot(i) : i \in describe_instances(NodeName, Live)}
    ELSE {None}

\* _lazy_load_instance_info, given the status st and answer r of the describe
\* call it makes when nothing is cached yet.
LoadOutcome(h, st, r) ==
    IF ~NeedsQuery(h) THEN "ok"
    ELSE IF st # "ok" THEN st
    ELSE IF r = None THEN "RuntimeError: could not find info"
    ELSE "ok"

LoadInfo(h, st, r) ==
    IF NeedsQuery(h) /\ LoadOutcome(h, st, r) = "ok" THEN [info EXCEPT ![h] = r] ELSE info

LoadRequest(h, st) ==
    IF NeedsQuery(h) THEN Request("describe_instances", 0, st) ELSE NoRequest

\* The value a property returns from the snapshot.
Project(snapshot, attribute) ==
    CASE attribute = "instance_id"     -> snapshot.InstanceId
      [] attribute = "private_ip"      -> snapshot.PrivateIpAddress
      [] attribute = "public_ip"       -> IF "PublicIpAddress" \in DOMAIN snapshot
                                          THEN snapshot.PublicIpAddress
                                          ELSE None
      [] attribute = "security_groups" -> snapshot.SecurityGroups

\* list.remove on the cached list itself: it raises on an absent sg_id and the
\* snapshot loses the group.
filter_groups_in_place(snapshot, sg_id) ==
    [new_sgs  |-> snapshot.SecurityGroups \ {sg_id},
     snapshot |-> [snapshot EXCEPT !.SecurityGroups = @ \ {sg_id}],
     raised   |-> sg_id \notin snapshot.SecurityGroups]

\* Line 121, new_sgs = [sg for sg in self.security_groups if sg != sg_id]: the
\* list handed to the provider, the snapshot it leaves cached, and whether it
\* raises.  The comprehension builds a new list and accepts an absent sg_id.
filter_groups(snapshot, sg_id) ==
    [new_sgs  |-> snapshot.SecurityGroups \ {sg_id},
     snapshot |-> snapshot,
     raised   |-> FALSE]

\* ---------------------------------------------------------------- Init/Next
InitState ==
    /\ instances = << >>
    /\ info = [h \in Handles |-> None]
    /\ pc = [h \in Handles |-> "idle"]
    /\ arg = [h \in Handles |-> NoArg]
    /\ request = NoRequest
    /\ result = NoResult
    /\ prev = NoPrev
    /\ calls = 0

\* An environment: one caller or two, a provider that may fail or not, a
\* bounded number of calls or not, a subnet that gives its instances public
\* addresses or not.
Env(interleave, faults, bounded, public_ips) ==
    [interleave |-> interleave, faults |-> faults, bounded |-> bounded, public_ips |-> public_ips]

\* One caller, a provider that always answers, either kind of subnet.
Init == InitState /\ \E public_ips \in BOOLEAN : env = Env(FALSE, FALSE, FALSE, public_ips)

\* One caller, a provider whose calls may raise, a private subnet.
InitFault == InitState /\ env = Env(FALSE, TRUE, FALSE, FALSE)

\* Two callers whose remote calls interleave, starting MaxCalls methods
\* between them, a private subnet.
InitRace == InitState /\ env = Env(TRUE, FALSE, TRUE, FALSE)

\* pending -> running and shutting-down -> terminated happen on the provider's side.
ProviderProgress(i) ==
    /\ instances[i].state \in {"pending", "shutting-down"}
    /\ instances' = [instances EXCEPT ![i].state =
                        IF @ = "pending" THEN "running" ELSE "terminated"]
    /\ request' = NoRequest
    /\ result' = NoResult
    /\ UNCHANGED <<info, pc, arg, prev, env, calls>>

\* ---- properties: instance_id, private_ip, public_ip, security_groups
GetAttribute(h, attribute) ==
    /\ MayStart(h)
    /\ \E st \in Statuses, r \in query_for_instance_info :
         /\ request' = LoadRequest(h, st)
         /\ info' = LoadInfo(h, st, r)
         /\ Answer(h, attribute, LoadOutcome(h, st, r), FALSE,
                   IF LoadOutcome(h, st, r) = "ok"
                   THEN Project(LoadInfo(h, st, r)[h], attribute) ELSE None)
    /\ UNCHANGED <<instances, prev, env>>

\* ---- query_for_instance_info as a public method
QueryForInstanceInfo(h) ==
    /\ MayStart(h)
    /\ \E st \in Statuses, r \in query_for_instance_info :
         /\ request' = Request("describe_instances", 0, st)
         /\ Answer(h, "query_for_instance_info", st, FALSE, IF st = "ok" THEN r ELSE None)
    /\ UNCHANGED <<instances, info, prev, env>>

\* ---- is_in_state
IsInState(h, states) ==
    /\ MayStart(h)
    /\ \E st \in Statuses :
         /\ request' = Request("describe_instances", 0, st)
         /\ Answer(h, "is_in_state", st,
                   st = "ok" /\ Exists(describe_instances(NodeName, StateList(states))), None)
    /\ UNCHANGED <<instances, info, prev, env>>

\* ---- is_running_or_pending
IsRunningOrPending(h) == IsInState(h, <<"list", Live>>)

\* ---- wait_for_instance_to_be_running: the step in which the wait ends
WaitForInstanceToBeRunning(h) ==
    /\ MayStart(h)
    /\ \E st \in Statuses, outcome \in instance_running(NodeName) :
         /\ request' = Request("waiter:instance_running", 0, st)
         /\ Answer(h, "wait_for_instance_to_be_running",
                   IF st = "ok" THEN outcome ELSE st, FALSE, None)
    /\ UNCHANGED <<instances, info, prev, env>>

\* ---- wait_for_instance_to_be_status_ok, wait_for_instance_to_be_terminated:
\* self.instance_id, read before the waiter is called (lines 228 and 242)
WaitResolve(h, op) ==
    /\ MayStart(h)
    /\ \E st \in Statuses, r \in query_for_instance_info :
         /\ request' = LoadRequest(h, st)
         /\ info' = LoadInfo(h, st, r)
         /\ IF LoadOutcome(h, st, r) = "ok"
            THEN /\ pc' = [pc EXCEPT ![h] = op]
                 /\ arg' = [arg EXCEPT ![h] = [NoArg EXCEPT
                               !.instance_id = LoadInfo(h, st, r)[h].InstanceId]]
                 /\ result' = NoResult
            ELSE Answer(h, op, LoadOutcome(h, st, r), FALSE, None)
    /\ UNCHANGED <<instances, prev, env>>

\* The step in which the waiter returns or raises.
WaiterEnds(h, op, api, outcomes) ==
    /\ pc[h] = op
    /\ \E st \in Statuses, outcome \in outcomes :
         /\ request' = Request(api, arg[h].instance_id, st)
         /\ Wakes(h, op, IF st = "ok" THEN outcome ELSE st)
    /\ UNCHANGED <<instances, info, prev, env, calls>>

WaitForInstanceToBeStatusOk(h) == WaitResolve(h, "wait_for_instance_to_be_status_ok")

InstanceStatusOk(h) ==
    WaiterEnds(h, "wait_for_instance_to_be_status_ok", "waiter:instance_status_ok",
               instance_status_ok(arg[h].instance_id))

WaitForInstanceToBeTerminated(h) == WaitResolve(h, "wait_for_instance_to_be_terminated")

InstanceTerminated(h) ==
    WaiterEnds(h, "wait_for_instance_to_be_terminated", "waiter:instance_terminated",
               instance_terminated(arg[h].instance_id))

\* ---- launch, lines 297-350: validation and argument conversion, no remote call
LaunchValidate(h, p) ==
    /\ MayStart(h)
    /\ request' = NoRequest
    /\ IF ValidateInput(p)
       THEN /\ pc' = [pc EXCEPT ![h] = "launch_check"]
            /\ arg' = [arg EXCEPT ![h] = [NoArg EXCEPT !.new_sgs = p.security_group_ids,
                                                       !.dry_run = p.dry_run]]
            /\ result' = NoResult
            /\ UNCHANGED prev
       ELSE /\ result' = Returned(h, "launch", "AssertionError", FALSE, None, {})
            /\ UNCHANGED <<pc, arg, prev>>
    /\ UNCHANGED <<instances, info, env>>

\* ---- launch, lines 357-358: the duplicate-name guard
LaunchCheck(h) ==
    /\ pc[h] = "launch_check"
    /\ \E st \in Statuses :
         /\ request' = Request("describe_instances", 0, st)
         /\ IF st # "ok"
            THEN Finish(h, "launch", st, "", {})
            ELSE IF Exists(describe_instances(NodeName, Live))
            THEN Finish(h, "launch", "RuntimeError: already exists", "", {})
            ELSE /\ pc' = [pc EXCEPT ![h] = "launch_run"]
                 /\ result' = NoResult
                 /\ UNCHANGED <<arg, prev>>
    /\ UNCHANGED <<instances, info, env, calls>>

\* ---- launch, lines 365-396: run_instances
LaunchRun(h) ==
    /\ pc[h] = "launch_run"
    /\ arg[h].dry_run \/ Len(instances) < MaxInst
    /\ \E st \in Statuses :
         /\ request' = Request("run_instances", 0, DryRun(st, arg[h].dry_run))
         /\ instances' = run_instances(NodeName, arg[h].new_sgs, request'.status)
         /\ Finish(h, "launch", request'.status, "",
                   IF request'.status = "ok" THEN {"run_instances"} ELSE {})
    /\ UNCHANGED <<info, env, calls>>

\* ---- terminate, line 407: instance_id = self.instance_id
TerminateResolve(h, dry_run) ==
    /\ MayStart(h)
    /\ \E st \in Statuses, r \in query_for_instance_info :
         /\ request' = LoadRequest(h, st)
         /\ info' = LoadInfo(h, st, r)
         /\ IF LoadOutcome(h, st, r) = "ok"
            THEN /\ pc' = [pc EXCEPT ![h] = "terminate_call"]
                 /\ arg' = [arg EXCEPT ![h] = [NoArg EXCEPT
                               !.dry_run = dry_run,
                               !.instance_id = LoadInfo(h, st, r)[h].InstanceId]]
                 /\ result' = NoResult
                 /\ UNCHANGED prev
            ELSE /\ result' = Returned(h, "terminate", LoadOutcome(h, st, r), FALSE, None, {})
                 /\ UNCHANGED <<pc, arg, prev>>
    /\ UNCHANGED <<instances, env>>

\* ---- terminate, lines 408-413: terminate_instances
TerminateCall(h) ==
    /\ pc[h] = "terminate_call"
    /\ \E st \in Statuses :
         /\ request' = Request("terminate_instances", arg[h].instance_id,
                               DryRun(st, arg[h].dry_run))
         /\ instances' = terminate_instances(arg[h].instance_id, request'.status)
         /\ IF request'.status = "ok"
            THEN /\ pc' = [pc EXCEPT ![h] = "terminate_untag"]
                 /\ arg' = [arg EXCEPT ![h].effects = @ \cup {"terminate_instances"}]
                 /\ result' = NoResult
                 /\ UNCHANGED prev
            ELSE Finish(h, "terminate", request'.status, "", arg[h].effects)
    /\ UNCHANGED <<info, env, calls>>

\* ---- terminate, lines 415-417: delete the 'Name' tag
TerminateUntag(h) ==
    /\ pc[h] = "terminate_untag"
    /\ \E st \in Statuses :
         /\ request' = Request("delete_tags", arg[h].instance_id, st)
         /\ instances' = delete_tags(arg[h].instance_id, st)
         /\ Finish(h, "terminate", st, "",
                   arg[h].effects \cup (IF st = "ok" THEN {"delete_tags"} ELSE {}))
    /\ UNCHANGED <<info, env, calls>>

\* ---- detach_security_group, lines 118-119: the running-or-pending guard
DetachCheck(h, sg_id) ==
    /\ MayStart(h)
    /\ \E st \in Statuses :
         /\ request' = Request("describe_instances", 0, st)
         /\ IF st = "ok" /\ Exists(describe_instances(NodeName, Live))
            THEN /\ pc' = [pc EXCEPT ![h] = "detach_load"]
                 /\ arg' = [arg EXCEPT ![h] = [NoArg EXCEPT !.sg_id = sg_id]]
                 /\ result' = NoResult
                 /\ UNCHANGED prev
            ELSE /\ result' = [Returned(h, "detach_security_group",
                                  IF st = "ok" THEN "RuntimeError: isn't running" ELSE st,
                                  FALSE, None, {}) EXCEPT !.sg_id = sg_id]
                 /\ UNCHANGED <<pc, arg, prev>>
    /\ UNCHANGED <<instances, info, env>>

\* ---- detach_security_group, line 121: new_sgs from self.security_groups
DetachLoad(h) ==
    /\ pc[h] = "detach_load"
    /\ \E st \in Statuses, r \in query_for_instance_info :
         /\ request' = LoadRequest(h, st)
         /\ IF LoadOutcome(h, st, r) # "ok"
            THEN /\ Finish(h, "detach_security_group", LoadOutcome(h, st, r), arg[h].sg_id, {})
                 /\ UNCHANGED info
            ELSE LET f == filter_groups(LoadInfo(h, st, r)[h], arg[h].sg_id) IN
                 /\ info' = [info EXCEPT ![h] = f.snapshot]
                 /\ IF f.raised
                    THEN Finish(h, "detach_security_group", "ValueError", arg[h].sg_id, {})
                    ELSE /\ pc' = [pc EXCEPT ![h] = "detach_modify"]
                         /\ arg' = [arg EXCEPT ![h].new_sgs = f.new_sgs]
                         /\ result' = NoResult
                         /\ UNCHANGED prev
    /\ UNCHANGED <<instances, env, calls>>

\* ---- detach_security_group, line 122: modify_instance_attribute on self.instance_id
DetachModify(h) ==
    /\ pc[h] = "detach_modify"
    /\ \E st \in Statuses :
         /\ request' = Request("modify_instance_attribute", info[h].InstanceId, st)
         /\ instances' = modify_instance_attribute(info[h].InstanceId, arg[h].new_sgs, st)
         /\ Finish(h, "detach_security_group", st, arg[h].sg_id,
                   IF st = "ok" THEN {"modify_instance_attribute"} ELSE {})
    /\ UNCHANGED <<info, env, calls>>

Next ==
    \/ \E i \in DOMAIN instances : ProviderProgress(i)
    \/ \E h \in Handles, a \in Attributes : GetAttribute(h, a)
    \/ \E h \in Handles : QueryForInstanceInfo(h)
    \/ \E h \in Handles, s \in StateArgs : IsInState(h, s)
    \/ \E h \in Handles : IsRunningOrPending(h)
    \/ \E h \in Handles : WaitForInstanceToBeRunning(h)
    \/ \E h \in Handles : WaitForInstanceToBeStatusOk(h)
    \/ \E h \in Handles : InstanceStatusOk(h)
    \/ \E h \in Handles : WaitForInstanceToBeTerminated(h)
    \/ \E h \in Handles : InstanceTerminated(h)
    \/ \E h \in Handles, p \in LaunchParams : LaunchValidate(h, p)
    \/ \E h \in Handles : LaunchCheck(h)
    \/ \E h \in Handles : LaunchRun(h)
    \/ \E h \in Handles, d \in BOOLEAN : TerminateResolve(h, d)
    \/ \E h \in Handles : TerminateCall(h)
    \/ \E h \in Handles : TerminateUntag(h)
    \/ \E h \in Handles, sg \in SGs : DetachCheck(h, sg)
    \/ \E h \in Handles : DetachLoad(h)
    \/ \E h \in Handles : DetachModify(h)

Spec == Init /\ [][Next]_vars

SpecFault == InitFault /\ [][Next]_vars

SpecRace == InitRace /\ [][Next]_vars

\* ------------------------------------------------------------------- claims
\* The instances that carry the name and are running or pending.
LiveNamed ==
    {i \in DOMAIN instances :
        instances[i].name = NodeName /\ instances[i].state \in {"running", "pending"}}

LaunchEnds(h) == pc[h] \in {"launch_check", "launch_run"} /\ pc'[h] = "idle"

\* C1: once a launch has succeeded, a launch on the same name (reads, waits
\* and calls that raised may come between, a successful terminate or detach
\* may not) ends at the duplicate-name guard with the 'already exists' error,
\* without a run_instances call.
C1_SecondLaunchIsDuplicate ==
    [][\A h \in Handles :
          (prev.op = "launch" /\ LaunchEnds(h))
          => /\ pc[h] = "launch_check"
             /\ result'.outcome = "RuntimeError: already exists"
             /\ request'.api = "describe_instances"
             /\ instances' = instances]_vars

C1_Witness ==
    /\ result.op = "launch"
    /\ result.outcome = "RuntimeError: already exists"
    /\ request.api = "describe_instances"
    /\ Len(instances) = 1
    /\ instances[1].name = NodeName /\ instances[1].state \in Live
    /\ info[result.h] = None

\* The four kinds of invalid arguments the validation is documented to reject.
EmptySecurityGroups(p) == p.security_group_ids = {}

MissingIops(p) == p.volume_type = "io1" /\ p.iops = NoIops

ReservedTagKey(p) ==
    /\ ~p.tags_is_none /\ p.tags_is_list
    /\ \E k \in 1..Len(p.tags) :
          p.tags[k].is_dict /\ "Key" \in DOMAIN p.tags[k] /\ p.tags[k].Key = "Name"

BadEiaType(p) ==
    /\ p.eia_type # NoEia
    /\ \/ Len(p.eia_type) < 4
       \/ <<p.eia_type[1], p.eia_type[2], p.eia_type[3], p.eia_type[4]>> # <<"e", "i", "a", "1">>

Rejected(p) == EmptySecurityGroups(p) \/ MissingIops(p) \/ ReservedTagKey(p) \/ BadEiaType(p)

RejectedParams == {p \in LaunchParams : Rejected(p)}

\* C3: a launch whose arguments are invalid in one of the four ways ends with
\* the validation error in its first step: no remote call is made, no
\* instance changes and the handle is not left inside the method.
C3_InvalidLaunchMakesNoCall ==
    [][\A h \in Handles :
          (pc[h] = "idle" /\ (pc'[h] = "launch_check" \/ result'.op = "launch"))
          => \A p \in RejectedParams :
                LaunchValidate(h, p)
                => /\ result' = Returned(h, "launch", "AssertionError", FALSE, None, {})
                   /\ request' = NoRequest
                   /\ instances' = instances
                   /\ pc'[h] = "idle"]_vars

C3_Witness ==
    /\ result.op = "launch"
    /\ result.outcome = "AssertionError"
    /\ request = NoRequest
    /\ Busy = {}
    /\ LiveNamed = {}

\* C7: with a single caller, at most one running or pending instance carries
\* the name.
C7_AtMostOneLiveNamed == Cardinality(LiveNamed) <= 1

C7_Witness ==
    /\ Len(instances) = 2
    /\ Cardinality(LiveNamed) = 1
    /\ prev.op = "launch"

DetachEnds(h) == result'.h = h /\ result'.op = "detach_security_group"

\* C4: a detach_security_group(id) that follows a successful
\* detach_security_group(id) on the same handle (with no successful launch
\* or terminate between them) raises nothing and leaves every instance's
\* groups as the first call left them.
C4_DetachTwiceIsDetachOnce ==
    [][\A h \in Handles :
          (/\ prev.op = "detach_security_group" /\ prev.h = h
           /\ DetachEnds(h)
           /\ result'.sg_id = prev.sg_id)
          => /\ result'.outcome = "ok"
             /\ request'.api = "modify_instance_attribute"
             /\ instances' = instances]_vars

C4_Witness ==
    /\ prev.op = "detach_security_group"
    /\ result.op = "detach_security_group" /\ result.outcome = "ok"
    /\ info[prev.h] # None
    /\ prev.sg_id \notin instances[info[prev.h].InstanceId].groups
    /\ instances[info[prev.h].InstanceId].groups # {}
    /\ instances[info[prev.h].InstanceId].state \in Live

Mutating == {"launch", "terminate", "detach_security_group"}

Raises == result'.op \in Mutating /\ result'.outcome # "ok"

\* C5 as stated: when launch, terminate or detach_security_group raises, no
\* remote mutation of that method has taken effect.
C5_AllOrNothing == [][Raises => result'.effects = {}]_vars

\* C5 amended: the step that raises changes no instance; launch and
\* detach_security_group raise only with none of their mutating calls done,
\* and terminate raises either with none done or with terminate_instances
\* done and the 'Name' tag still on the instance.
C5_RaisesBeforeLastMutation ==
    [][\A h \in Handles :
          (Raises /\ result'.h = h)
          => /\ instances' = instances
             /\ result'.op \in {"launch", "detach_security_group"} => result'.effects = {}
             /\ result'.op = "terminate" =>
                  \/ result'.effects = {}
                  \/ /\ result'.effects = {"terminate_instances"}
                     /\ pc[h] = "terminate_untag"
                     /\ instances'[arg[h].instance_id].state \in {"shutting-down", "terminated"}]_vars

C5_Witness ==
    /\ result.op = "terminate"
    /\ result.outcome = "ClientError"
    /\ result.effects = {"terminate_instances"}
    /\ \E i \in DOMAIN instances :
          instances[i].state = "shutting-down" /\ instances[i].name = NodeName

AttributeEnds(h) == result'.h = h /\ result'.op \in Attributes

\* The steps in which a property of the handle is read: the properties
\* themselves, instance_id in terminate and in the two waits that take the
\* instance id, security_groups in detach_security_group.
AttributeAccess(h) ==
    \/ AttributeEnds(h)
    \/ pc[h] = "idle" /\ pc'[h] = "terminate_call"
    \/ pc[h] = "idle" /\ pc'[h] = "wait_for_instance_to_be_status_ok"
    \/ pc[h] = "idle" /\ pc'[h] = "wait_for_instance_to_be_terminated"
    \/ pc[h] = "detach_load" /\ pc'[h] = "detach_modify"

\* C6: _instance_info changes only from None to the snapshot of a running or
\* pending instance of the name, and only in an attribute access that made a
\* describe call; is_in_state, is_running_or_pending, query_for_instance_info,
\* launch and a failed resolution leave it alone; an attribute read on an
\* unresolved handle makes its own describe call, and on a resolved handle
\* it makes no call and returns the field of the snapshot it holds.
C6_CacheWrittenOnce ==
    [][\A h \in Handles :
          /\ info'[h] # info[h] =>
                /\ info[h] = None
                /\ AttributeAccess(h)
                /\ request' = Request("describe_instances", 0, "ok")
                /\ info'[h] \in {Snapshot(i) : i \in LiveNamed}
          /\ (result'.op \in {"is_in_state", "query_for_instance_info", "launch"}
              \/ result'.outcome = "RuntimeError: could not find info") => info' = info
          /\ (AttributeEnds(h) /\ info[h] = None) => request'.api = "describe_instances"
          /\ (AttributeEnds(h) /\ info[h] # None) =>
                /\ request' = NoRequest
                /\ result'.outcome = "ok"
                /\ result'.ret = Project(info[h], result'.op)]_vars

C6_Witness ==
    /\ result.op = "instance_id"
    /\ result.outcome = "ok"
    /\ request = NoRequest
    /\ result.ret \notin LiveNamed
    /\ LiveNamed # {}

\* C8: a launch that has passed the duplicate-name guard creates its instance
\* whatever has happened to the name since, so two callers that both passed
\* the guard end with two running or pending instances of one name.
C8_CreateDoesNotRecheck ==
    [][\A h \in Handles :
          (pc[h] = "launch_run" /\ ~arg[h].dry_run /\ pc'[h] = "idle")
          => /\ result'.outcome = "ok"
             /\ Len(instances') = Len(instances) + 1
             /\ instances'[Len(instances')].name = NodeName
             /\ instances'[Len(instances')].state \in Live]_vars

C8_Witness ==
    /\ Cardinality(LiveNamed) = 2
    /\ result.op = "launch" /\ result.outcome = "ok"

\* C2 as stated: the launch that follows a successful terminate passes the
\* duplicate-name guard and goes on to its run_instances call.
C2_LaunchAfterTerminatePasses ==
    [][\A h \in Handles :
          (prev.op = "terminate" /\ pc[h] = "launch_check" /\ pc'[h] # "launch_check")
          => pc'[h] = "launch_run"]_vars

\* C9 as stated: while an instance carries the name in running or pending,
\* terminate_instances and modify_instance_attribute are sent for that
\* instance, also by a handle that has terminated and launched before.
C9_MutationTargetsNamedInstance ==
    [][\A h \in Handles :
          (/\ LiveNamed # {}
           /\ \/ pc[h] = "terminate_call" /\ request'.api = "terminate_instances"
              \/ pc[h] = "detach_modify" /\ request'.api = "modify_instance_attribute")
          => request'.id \in LiveNamed]_vars

\* C10 as stated: after detach_security_group(a) and then
\* detach_security_group(b) on one handle, both successful, the instance has
\* neither a nor b.
C10_DetachesAccumulate ==
    [][\A h \in Handles :
          (/\ prev.op = "detach_security_group" /\ prev.h = h
           /\ DetachEnds(h) /\ result'.outcome = "ok"
           /\ result'.sg_id # prev.sg_id)
          => instances'[info[h].InstanceId].groups \cap {prev.sg_id, result'.sg_id} = {}]_vars
====
